---------------------------- MODULE Spec2Model ----------------------------
(***************************************************************************)
(* idiff: compare two images level by level and classify the differences.  *)
(*                                                                         *)
(* The model follows main() of src/idiff/idiff.cpp step by step.  Two runs *)
(* of the program over the same pair of files are carried side by side     *)
(* (Runs): they share the files, the flags and every read outcome, and     *)
(* differ at most in the thresholds and in whether -o was given, so that   *)
(* claims relating two runs can be stated.  Under Spec both runs are the   *)
(* same run.                                                               *)
(*                                                                         *)
(* Left out: the text of the report (lines 209-210, 243-249, 268-278,      *)
(* 312-347, 386-394) and the sample values written to the difference       *)
(* image (lines 354-374); of the output only the final status line is      *)
(* kept.  The level counts and subimage counts of the two files are fixed  *)
(* before the run (files); the contents of a level are chosen when the     *)
(* level is read, its samples when the level is compared.                  *)
(*                                                                         *)
(* Numbers.  Pixel values, thresholds and errors are integers in units of  *)
(* the smallest error the model distinguishes; percentages are integers,   *)
(* and  n > percent/100.0 * npels  is evaluated exactly as                 *)
(* n*100 > percent*npels.                                                  *)
(***************************************************************************)
EXTENDS Integers, Sequences, FiniteSets, TLC

(* ------------------------------ bounds -------------------------------- *)
MaxSub == 2          \* subimages per file: 1..MaxSub
MaxMip == 2          \* MIP levels per subimage: 1..MaxMip

(* ---------------------- idiffErrors (lines 56-63) ---------------------- *)
ErrOK == 0
ErrWarn == 1
ErrFail == 2
ErrDifferentSize == 3
ErrFile == 4

\* std::numeric_limits<float>::max(), the default of hardwarn and hardfail:
\* larger than every error the model can produce.
FLT_MAX == 1000

\* The largest int (line 288 computes npels as an int).
INT_MAX == 2147483647

Runs == {1, 2}

(* --------------------------- file contents ---------------------------- *)
\* Sample values, in units of the smallest error the model distinguishes.
PixelVals == 0..2

\* ImageSpec fields read by idiff.  The menu holds the 1x1x1 one-channel
\* image, the images that double one of its fields, and the zero-area image.
BaseShape == [width |-> 1, height |-> 1, depth |-> 1, nchannels |-> 1]

Shapes ==
    {BaseShape,
     [BaseShape EXCEPT !.width = 0],
     [BaseShape EXCEPT !.width = 2],
     [BaseShape EXCEPT !.height = 2],
     [BaseShape EXCEPT !.depth = 2],
     [BaseShape EXCEPT !.nchannels = 2]}

\* What one level of a file can hold: a dense image of any shape of the
\* menu, or a deep image of the base shape.
Levels ==
    {[spec |-> sh, deep |-> FALSE] : sh \in Shapes}
    \cup {[spec |-> BaseShape, deep |-> TRUE]}

NoShape == [width |-> 0, height |-> 0, depth |-> 0, nchannels |-> 0]

\* The structure of a file: the number of MIP levels of each subimage.
Files == UNION {[1..n -> 1..MaxMip] : n \in 1..MaxSub}

\* A file with one subimage of one level.
SingleLevel == <<1>>

\* A default-constructed ImageBuf (line 228): nothing read yet.
EmptyImg ==
    [subimage |-> -1, miplevel |-> -1, nsubimages |-> 0, nmiplevels |-> 0,
     spec |-> NoShape, deep |-> FALSE]

VARIABLES
    files,         \* <<structure of filenames[0], of filenames[1]>>
    cfg,           \* [Runs -> thresholds]           lines 72-78
    perceptual,    \* -p                             line 77
    compareall,    \* -a                             line 81
    outdiffonly,   \* -od                            line 68
    diffimage,     \* [Runs -> BOOLEAN]: diffimage.size() != 0     line 69
    pc,            \* position in main()
    subimage, m,   \* loop indices                   lines 235, 251
    img0, img1,    \* the two ImageBufs              line 228
    identical,     \* the samples compared at this level were equal
    npels,         \* line 288
    cr,            \* [Runs -> CompareResults]       line 295
    yee_failures,  \* line 298
    ret,           \* [Runs -> idiffErrors]          line 234
    imagecache,    \* TRUE while the private ImageCache exists   line 214
    status,        \* the final PASS/WARNING/FAILURE line        lines 396-401
    exitcode,      \* [Runs -> value returned by main, -1 while running]
    \* history of the run, not read by the program
    ioFailed,      \* a read_input call returned false
    ops,           \* what was invoked on the pair of the current level
    level,         \* [Runs -> verdict of the level just classified, -1 if none]
    worst,         \* [Runs -> most severe verdict recorded so far]
    everFail,      \* [Runs -> some level was classified Fail]
    differed,      \* some compared level had unequal samples
    uniform,       \* the error every pixel of the compared level has, -1
                   \* if the pixels differ in error or there is no pixel
    requested,     \* [Runs -> -o was given]
    qualified,     \* [Runs -> first compared level that asked for a
                   \*          difference image, NoLevel if none yet]
    diffs          \* [Runs -> <<subimage, m, saved>> of each difference
                   \*          image built, in order]

vars == <<files, cfg, perceptual, compareall, outdiffonly, diffimage, pc, subimage, m,
          img0, img1, identical, npels, cr, yee_failures, ret, imagecache,
          status, exitcode, ioFailed, ops, level, worst, everFail, differed,
          uniform, requested, qualified, diffs>>


(* --------------------------- pure functions --------------------------- *)
Abs(x) == IF x < 0 THEN -x ELSE x

MaxOf(S) == IF S = {} THEN 0 ELSE CHOOSE x \in S : \A y \in S : y <= x

\* int * int of line 288, reduced to 32 bits (two's complement).  The
\* product is formed from 16-bit halves so that no intermediate value
\* leaves the 32-bit range.
Mul32(a, b) ==
    LET al == a % 65536
        ah == (a - al) \div 65536
        bl == b % 65536
        bh == (b - bl) \div 65536
        t1 == (al \div 256) * bl
        t0 == (al % 256) * bl
        low == (t1 % 256) * 256 + t0
        lo16 == low % 65536
        carry == (t1 \div 256) + (low \div 65536)
        hi16 == ((carry % 65536) + ((ah * bl) % 65536) + ((al * bh) % 65536))
                    % 65536
    IN  IF hi16 >= 32768 THEN (hi16 - 65536) * 65536 + lo16
        ELSE hi16 * 65536 + lo16

\* lines 288-290
Npels(sp) ==
    LET n == Mul32(Mul32(sp.width, sp.height), sp.depth)
    IN  IF n = 0 THEN 1 ELSE n

\* a * b, for a, b >= 0, is beyond INT_MAX
Overflows(a, b) == a # 0 /\ b > INT_MAX \div a

\* Values a signed overflow may leave behind besides the wrapped product.
IntSamples == {-INT_MAX - 1, -1, 0, 1, INT_MAX}

\* lines 288-290 with the overflow of int * int left undefined: the value
\* of npels is the clamped product if width * height and the product with
\* depth fit an int, and otherwise the wrapped value (Npels) or any int.
NpelsOutcomes(sp) ==
    IF \/ Overflows(sp.width, sp.height)
       \/ Overflows(Mul32(sp.width, sp.height), sp.depth)
    THEN {Npels(sp)} \cup {IF n = 0 THEN 1 ELSE n : n \in IntSamples}
    ELSE {Npels(sp)}

\* same_size comparing the resolution only
same_size_NoChannels(A, B) ==
    /\ A.spec.width = B.spec.width
    /\ A.spec.height = B.spec.height
    /\ A.spec.depth = B.spec.depth

\* lines 160-166
same_size(A, B) ==
    /\ A.spec.width = B.spec.width
    /\ A.spec.height = B.spec.height
    /\ A.spec.depth = B.spec.depth
    /\ A.spec.nchannels = B.spec.nchannels

\* Number of pixels and of samples a buffer of this shape holds.
NumPixels(sp) == sp.width * sp.height * sp.depth
NumSamples(sp) == NumPixels(sp) * sp.nchannels

\* The sample buffers a level of this shape can hold (deep data is not
\* reduced numerically and is not loaded).
Buffers(sp, deep) ==
    IF deep THEN {<< >>} ELSE [1..NumSamples(sp) -> PixelVals]

\* Error of pixel p (0-based): the largest channel error of the pixel.
PixelErr(A, B, sp, p) ==
    MaxOf({Abs(A[p * sp.nchannels + c] - B[p * sp.nchannels + c]) :
              c \in 1..sp.nchannels})

\* ImageBufAlgo::compare (called at line 296): err = |a - b| per sample,
\* maxerror the largest, nfail/nwarn the pixels with an error above
\* failthresh/warnthresh.  A deep pair is not reduced numerically.
Compare(A, B, sp, deep, failthresh, warnthresh) ==
    IF deep
    THEN [maxerror |-> 0, nwarn |-> 0, nfail |-> 0]
    ELSE LET P == 0..(NumPixels(sp) - 1)
         IN  [maxerror |-> MaxOf({PixelErr(A, B, sp, p) : p \in P}),
              nwarn |-> Cardinality({p \in P : PixelErr(A, B, sp, p) > warnthresh}),
              nfail |-> Cardinality({p \in P : PixelErr(A, B, sp, p) > failthresh})]

\* The error shared by all the pixels of the pair, -1 if there is none.
UniformErr(A, B, sp, deep) ==
    LET E == {PixelErr(A, B, sp, p) : p \in 0..(NumPixels(sp) - 1)}
    IN  IF ~deep /\ Cardinality(E) = 1 THEN CHOOSE e \in E : TRUE ELSE -1

NoResult == [maxerror |-> 0, nwarn |-> 0, nfail |-> 0]

\* ImageBufAlgo::compare_Yee (called at line 300): the number of pixels that
\* fail the perceptual test; only a pixel that differs can fail it.
YeeOutcomes(A, B, sp) ==
    0..Cardinality({p \in 0..(NumPixels(sp) - 1) : PixelErr(A, B, sp, p) # 0})

\* the perceptual comparator run on every dense pair
YeeWanted_Always(p, deep) == ~deep

\* line 299: perceptual && ! img0.deep()
YeeWanted(p, deep) == p /\ ~deep

\* Classify without the hard failure cutoff
Classify_NoHardFail(c, yee, n, t) ==
    IF \/ c.nfail * 100 > t.failpercent * n
       \/ yee * 100 > t.failpercent * n
    THEN ErrFail
    ELSE IF \/ c.nwarn * 100 > t.warnpercent * n
            \/ c.maxerror > t.hardwarn
         THEN ErrWarn
         ELSE ErrOK

\* Classify failing a level whose failures reach the allowed share
Classify_AtLeast(c, yee, n, t) ==
    IF \/ c.nfail * 100 >= t.failpercent * n
       \/ c.maxerror > t.hardfail
       \/ yee * 100 > t.failpercent * n
    THEN ErrFail
    ELSE IF \/ c.nwarn * 100 > t.warnpercent * n
            \/ c.maxerror > t.hardwarn
         THEN ErrWarn
         ELSE ErrOK

\* Classify warning about a level whose warnings reach the allowed share
Classify_WarnAtLeast(c, yee, n, t) ==
    IF \/ c.nfail * 100 > t.failpercent * n
       \/ c.maxerror > t.hardfail
       \/ yee * 100 > t.failpercent * n
    THEN ErrFail
    ELSE IF \/ c.nwarn * 100 >= t.warnpercent * n
            \/ c.maxerror > t.hardwarn
         THEN ErrWarn
         ELSE ErrOK

\* lines 302-308, the verdict of one level
Classify(c, yee, n, t) ==
    IF \/ c.nfail * 100 > t.failpercent * n
       \/ c.maxerror > t.hardfail
       \/ yee * 100 > t.failpercent * n
    THEN ErrFail
    ELSE IF \/ c.nwarn * 100 > t.warnpercent * n
            \/ c.maxerror > t.hardwarn
         THEN ErrWarn
         ELSE ErrOK

\* FoldVerdict starting afresh at a level that passes
FoldVerdict_Reset(r, v) ==
    IF v = ErrFail THEN ErrFail
    ELSE IF v = ErrWarn THEN (IF r # ErrFail THEN ErrWarn ELSE r)
    ELSE ErrOK

\* lines 302-308, the assignment to ret
FoldVerdict(r, v) ==
    IF v = ErrFail THEN ErrFail
    ELSE IF v = ErrWarn THEN (IF r # ErrFail THEN ErrWarn ELSE r)
    ELSE r

\* a mismatch that is reported but not recorded
RecordMismatch_Kept(r) == r

\* lines 256, 279, 284
RecordMismatch(r) == ErrDifferentSize

\* a mismatch that ends the whole traversal
AfterMismatch_Abort == "finish"

\* lines 280, 285: break leaves the MIP loop, the subimage loop goes on
AfterMismatch == "subimage"

\* SubimageCountCheck noticing only subimages missing from the second file
SubimageCountCheck_OneWay(r, all, n0, n1) ==
    IF all /\ n0 > n1 THEN ErrFail ELSE r

\* SubimageCountCheck made whether or not -a was given
SubimageCountCheck_Always(r, all, n0, n1) ==
    IF n0 # n1 THEN ErrFail ELSE r

\* lines 385-389
SubimageCountCheck(r, all, n0, n1) ==
    IF all /\ n0 # n1 THEN ErrFail ELSE r

\* line 353
DiffWanted(name, maxerror, onlynonzero) ==
    name /\ (maxerror # 0 \/ ~onlynonzero)

\* the name of the difference image left in place
ClearedDiffName_Kept == TRUE

\* line 380: diffimage = ""
ClearedDiffName == FALSE

\* a failed save turned into a failure of the run
RetAfterSave_Escalate(r, saved) == IF saved THEN r ELSE ErrFail

\* line 376: the result of diff.save is not looked at
RetAfterSave(r, saved) == r

\* lines 396-401
StatusLine(r) ==
    IF r = ErrOK THEN "PASS" ELSE IF r = ErrWarn THEN "WARNING" ELSE "FAILURE"

\* lines 145-147: the requested level is the one the ImageBuf holds
Cached(img, s, mp) ==
    img.subimage >= 0 /\ img.subimage = s /\ img.miplevel = mp

\* What img.read can deliver for level (s, mp) of file f: the counts are
\* those of the file, the contents of the level any of the menu.
Loaded(f, s, mp) ==
    {[subimage |-> s, miplevel |-> mp, nsubimages |-> Len(f),
      nmiplevels |-> f[s + 1], spec |-> lv.spec, deep |-> lv.deep] :
        lv \in Levels}

\* lines 141-156: the outcomes of read_input
read_input(f, img, s, mp) ==
    IF Cached(img, s, mp)
    THEN {[ok |-> TRUE, img |-> img]}
    ELSE {[ok |-> FALSE, img |-> EmptyImg]}
         \cup {[ok |-> TRUE, img |-> i] : i \in Loaded(f, s, mp)}

\* ! read_input (filenames[0], ...) || ! read_input (filenames[1], ...):
\* the second file is not read when the first read fails.
ReadBoth(s, mp) ==
    {[ok |-> FALSE, a |-> ra.img, b |-> img1] :
        ra \in {x \in read_input(files[1], img0, s, mp) : ~x.ok}}
    \cup {[ok |-> rb.ok, a |-> ra.img, b |-> rb.img] :
            ra \in {x \in read_input(files[1], img0, s, mp) : x.ok},
            rb \in read_input(files[2], img1, s, mp)}

\* the result of the reads not looked at
AfterRead_Ignored(ok, next) == next

\* lines 231, 244, 262: where main goes after the reads
AfterRead(ok, next) == IF ok THEN next ELSE "done"


(* ------------------------------- inputs ------------------------------- *)
\* Values of -fail/-warn, -failpercent/-warnpercent and -hardfail/-hardwarn.
ThreshVals == {0, 1}
PercentVals == {0, 50}
HardVals == {1, FLT_MAX}

NonNegative ==
    [failthresh : ThreshVals, warnthresh : ThreshVals,
     failpercent : PercentVals, warnpercent : PercentVals,
     hardfail : HardVals, hardwarn : HardVals]

\* %g accepts a negative number for every one of them.
Negated(t) ==
    {[t EXCEPT !.failthresh = -1], [t EXCEPT !.warnthresh = -1],
     [t EXCEPT !.failpercent = -50], [t EXCEPT !.warnpercent = -50],
     [t EXCEPT !.hardfail = -1], [t EXCEPT !.hardwarn = -1]}

Thresholds == NonNegative \cup UNION {Negated(t) : t \in NonNegative}

\* u is t with no threshold lowered
Relaxes(u, t) ==
    /\ u.failthresh >= t.failthresh
    /\ u.warnthresh >= t.warnthresh
    /\ u.failpercent >= t.failpercent
    /\ u.warnpercent >= t.warnpercent
    /\ u.hardfail >= t.hardfail
    /\ u.hardwarn >= t.hardwarn

Max2(a, b) == IF a >= b THEN a ELSE b

NoLevel == << >>

(* ------------------------------- Init --------------------------------- *)
\* The state when main() is entered, after getargs (line 207).
InitRun ==
    /\ files \in Files \X Files
    /\ perceptual \in BOOLEAN
    /\ compareall \in BOOLEAN
    /\ outdiffonly \in BOOLEAN
    /\ pc = "open"
    /\ subimage = 0
    /\ m = 0
    /\ img0 = EmptyImg
    /\ img1 = EmptyImg
    /\ identical = FALSE
    /\ npels = 0
    /\ cr = [r \in Runs |-> NoResult]
    /\ yee_failures = 0
    /\ ret = [r \in Runs |-> ErrOK]
    /\ imagecache = FALSE
    /\ status = [r \in Runs |-> "none"]
    /\ exitcode = [r \in Runs |-> -1]
    /\ ioFailed = FALSE
    /\ ops = [r \in Runs |-> {}]
    /\ level = [r \in Runs |-> -1]
    /\ worst = [r \in Runs |-> ErrOK]
    /\ everFail = [r \in Runs |-> FALSE]
    /\ differed = FALSE
    /\ uniform = -1
    /\ qualified = [r \in Runs |-> NoLevel]
    /\ diffs = [r \in Runs |-> << >>]

\* Thresholds that tell the three verdicts apart by the size of the error:
\* an error of 1 warns, an error of 2 fails.
Graded ==
    [failthresh |-> 1, warnthresh |-> 0, failpercent |-> 0, warnpercent |-> 0,
     hardfail |-> FLT_MAX, hardwarn |-> FLT_MAX]

\* Any flags, the graded thresholds.
Init ==
    /\ InitRun
    /\ cfg = [r \in Runs |-> Graded]
    /\ \E d \in BOOLEAN : diffimage = [r \in Runs |-> d]
    /\ requested = diffimage

\* Any thresholds, on files of a single level, without -o and -od.
InitThresh ==
    /\ InitRun
    /\ files = <<SingleLevel, SingleLevel>>
    /\ ~outdiffonly
    /\ \E t \in Thresholds : cfg = [r \in Runs |-> t]
    /\ diffimage = [r \in Runs |-> FALSE]
    /\ requested = diffimage

\* The second run relaxes the thresholds of the first.
InitRelax ==
    /\ InitRun
    /\ ~perceptual
    /\ ~outdiffonly
    /\ cfg \in {c \in [Runs -> NonNegative] : c[1] = Graded /\ Relaxes(c[2], c[1])}
    /\ diffimage = [r \in Runs |-> FALSE]
    /\ requested = diffimage

\* The first run is given -o, the second is not.
InitNoDiff ==
    /\ InitRun
    /\ cfg = [r \in Runs |-> Graded]
    /\ diffimage = [r \in Runs |-> r = 1]
    /\ requested = diffimage

\* -warn 1 -fail 2: an error of 1 is exactly the warning threshold.
AtBoundary == [Graded EXCEPT !.failthresh = 2, !.warnthresh = 1]

\* -warn 0 -fail 2: an error of 1 is above the warning threshold.
BelowBoundary == [Graded EXCEPT !.failthresh = 2, !.warnthresh = 0]

\* The first run has the warning threshold at the error 1, the second has
\* it below; files of a single level, no -p, -o, -od.
InitBoundary ==
    /\ InitRun
    /\ files = <<SingleLevel, SingleLevel>>
    /\ ~perceptual
    /\ ~outdiffonly
    /\ cfg = [r \in Runs |-> IF r = 1 THEN AtBoundary ELSE BelowBoundary]
    /\ diffimage = [r \in Runs |-> FALSE]
    /\ requested = diffimage

\* Widths, heights and depths up to the largest int, among them factors
\* whose product is beyond it.
BigDims == {0, 1, 2, 46341, 65536, INT_MAX}

BigShapes ==
    [width : BigDims, height : BigDims, depth : BigDims, nchannels : {1}]

\* main at line 288, the pair of level (0, 0) read and found to match in
\* size: both ImageBufs hold a dense image of one of the big shapes.
InitShape ==
    /\ files = <<SingleLevel, SingleLevel>>
    /\ cfg = [r \in Runs |-> Graded]
    /\ perceptual = FALSE
    /\ compareall = FALSE
    /\ outdiffonly = FALSE
    /\ diffimage = [r \in Runs |-> FALSE]
    /\ requested = diffimage
    /\ pc = "npels"
    /\ subimage = 0
    /\ m = 0
    /\ \E sh \in BigShapes :
          /\ img0 = [subimage |-> 0, miplevel |-> 0, nsubimages |-> 1,
                     nmiplevels |-> 1, spec |-> sh, deep |-> FALSE]
          /\ img1 = img0
    /\ identical = FALSE
    /\ npels = 0
    /\ cr = [r \in Runs |-> NoResult]
    /\ yee_failures = 0
    /\ ret = [r \in Runs |-> ErrOK]
    /\ imagecache = TRUE
    /\ status = [r \in Runs |-> "none"]
    /\ exitcode = [r \in Runs |-> -1]
    /\ ioFailed = FALSE
    /\ ops = [r \in Runs |-> {}]
    /\ level = [r \in Runs |-> -1]
    /\ worst = [r \in Runs |-> ErrOK]
    /\ everFail = [r \in Runs |-> FALSE]
    /\ differed = FALSE
    /\ uniform = -1
    /\ qualified = [r \in Runs |-> NoLevel]
    /\ diffs = [r \in Runs |-> << >>]

(* ------------------------------ actions ------------------------------- *)
\* img0 and img1 are locals of main: a return destroys them.
Kept(ok, img) == IF AfterRead(ok, "on") = "done" THEN EmptyImg ELSE img

\* return ErrFile (lines 231, 244, 262) or continue at `next'
Continue(ok, next) ==
    /\ pc' = AfterRead(ok, next)
    /\ exitcode' = IF AfterRead(ok, next) = "done"
                   THEN [r \in Runs |-> ErrFile] ELSE exitcode
    /\ ioFailed' = (ioFailed \/ ~ok)

\* lines 214-231: create the cache, open both files
OpenInputs ==
    /\ pc = "open"
    /\ imagecache' = TRUE
    /\ \E rd \in ReadBoth(0, 0) :
          /\ img0' = Kept(rd.ok, rd.a)
          /\ img1' = Kept(rd.ok, rd.b)
          /\ Continue(rd.ok, "subimage")
    /\ UNCHANGED <<files, uniform, cfg, perceptual, compareall, outdiffonly, diffimage,
                   subimage, m, identical, npels, cr, yee_failures, ret,
                   status, ops, level, worst, everFail, differed, requested,
                   qualified, diffs>>

\* lines 235-249: head of the subimage loop and the subimage read
SubimageStep ==
    /\ pc = "subimage"
    /\ IF /\ subimage < img0.nsubimages
          /\ ~(subimage > 0 /\ ~compareall)
          /\ subimage < img1.nsubimages
       THEN /\ \E rd \in ReadBoth(subimage, 0) :
                  /\ img0' = Kept(rd.ok, rd.a)
                  /\ img1' = Kept(rd.ok, rd.b)
                  /\ Continue(rd.ok, "miplevel")
            /\ m' = 0
            /\ ops' = [r \in Runs |-> {}]
            /\ level' = [r \in Runs |-> -1]
       ELSE /\ pc' = "finish"
            /\ UNCHANGED <<img0, img1, m, ops, level, exitcode, ioFailed>>
    /\ UNCHANGED <<files, uniform, cfg, perceptual, compareall, outdiffonly, diffimage,
                   subimage, identical, npels, cr, yee_failures, ret,
                   imagecache, status, worst, everFail, differed, requested,
                   qualified, diffs>>

\* lines 251-262: head of the MIP loop and the level read
MipStep ==
    /\ pc = "miplevel"
    /\ IF m < img0.nmiplevels /\ ~(m > 0 /\ ~compareall)
       THEN IF m > 0 /\ img0.nmiplevels # img1.nmiplevels
            THEN \* lines 254-258
                 /\ ret' = [r \in Runs |-> RecordMismatch(ret[r])]
                 /\ worst' = [r \in Runs |->
                                Max2(worst[r], RecordMismatch(ret[r]))]
                 /\ level' = [r \in Runs |-> -1]
                 /\ ops' = [r \in Runs |-> {}]
                 /\ subimage' = subimage + 1
                 /\ pc' = "subimage"
                 /\ UNCHANGED <<img0, img1, exitcode, ioFailed>>
            ELSE \* lines 260-262
                 /\ \E rd \in ReadBoth(subimage, m) :
                       /\ img0' = Kept(rd.ok, rd.a)
                       /\ img1' = Kept(rd.ok, rd.b)
                       /\ Continue(rd.ok, "check")
                 /\ ops' = [r \in Runs |-> {}]
                 /\ level' = [r \in Runs |-> -1]
                 /\ UNCHANGED <<ret, worst, subimage>>
       ELSE /\ subimage' = subimage + 1
            /\ pc' = "subimage"
            /\ UNCHANGED <<img0, img1, ret, worst, ops, level, exitcode,
                           ioFailed>>
    /\ UNCHANGED <<files, uniform, cfg, perceptual, compareall, outdiffonly, diffimage, m,
                   identical, npels, cr, yee_failures, imagecache, status, everFail, differed, requested, qualified,
                   diffs>>

\* lines 267-286: the dimensions and the deep flags of the pair
CheckSize ==
    /\ pc = "check"
    /\ IF ~same_size(img0, img1) \/ img0.deep # img1.deep
       THEN /\ ret' = [r \in Runs |-> RecordMismatch(ret[r])]
            /\ worst' = [r \in Runs |-> Max2(worst[r], RecordMismatch(ret[r]))]
            /\ level' = [r \in Runs |-> RecordMismatch(ret[r])]
            /\ subimage' = subimage + 1
            /\ pc' = AfterMismatch
       ELSE /\ pc' = "compare"
            /\ UNCHANGED <<ret, worst, level, subimage>>
    /\ UNCHANGED <<files, uniform, cfg, perceptual, compareall, outdiffonly, diffimage, m,
                   img0, img1, identical, npels, cr, yee_failures,
                   imagecache, status, exitcode, ioFailed, ops, everFail,
                   differed, requested, qualified, diffs>>

\* lines 288-308: compare the pair and classify the level
CompareLevel ==
    /\ pc = "compare"
    /\ npels' \in NpelsOutcomes(img0.spec)
    /\ \E A \in Buffers(img0.spec, img0.deep), B \in Buffers(img1.spec, img1.deep) :
          /\ identical' = (A = B)
          /\ differed' = (differed \/ A # B)
          /\ uniform' = UniformErr(A, B, img0.spec, img0.deep)
          /\ cr' = [r \in Runs |->
                      Compare(A, B, img0.spec, img0.deep,
                              cfg[r].failthresh, cfg[r].warnthresh)]
          /\ yee_failures' \in
                IF YeeWanted(perceptual, img0.deep)
                THEN YeeOutcomes(A, B, img0.spec) ELSE {0}
    /\ level' = [r \in Runs |->
                   Classify(cr'[r], yee_failures', npels', cfg[r])]
    /\ ret' = [r \in Runs |-> FoldVerdict(ret[r], level'[r])]
    /\ worst' = [r \in Runs |-> Max2(worst[r], level'[r])]
    /\ everFail' = [r \in Runs |-> everFail[r] \/ level'[r] = ErrFail]
    /\ ops' = [r \in Runs |->
                 {"compare", "classify"}
                 \cup (IF YeeWanted(perceptual, img0.deep)
                       THEN {"yee"} ELSE {})]
    /\ pc' = "diff"
    /\ UNCHANGED <<files, cfg, perceptual, compareall, outdiffonly, diffimage,
                   subimage, m, img0, img1, imagecache, status, exitcode,
                   ioFailed, requested, qualified, diffs>>

\* lines 353-381: build and save the difference image, then ++m
DiffStep ==
    /\ pc = "diff"
    /\ \E saved \in BOOLEAN :
          /\ diffimage' = [r \in Runs |->
                IF DiffWanted(diffimage[r], cr[r].maxerror, outdiffonly)
                THEN ClearedDiffName ELSE diffimage[r]]
          /\ diffs' = [r \in Runs |->
                IF DiffWanted(diffimage[r], cr[r].maxerror, outdiffonly)
                THEN Append(diffs[r], <<subimage, m, saved>>) ELSE diffs[r]]
          /\ ret' = [r \in Runs |->
                IF DiffWanted(diffimage[r], cr[r].maxerror, outdiffonly)
                THEN RetAfterSave(ret[r], saved) ELSE ret[r]]
    /\ ops' = [r \in Runs |->
                 IF DiffWanted(diffimage[r], cr[r].maxerror, outdiffonly)
                 THEN ops[r] \cup {"diff"} ELSE ops[r]]
    /\ qualified' = [r \in Runs |->
                 IF /\ qualified[r] = NoLevel
                    /\ requested[r]
                    /\ (cr[r].maxerror # 0 \/ ~outdiffonly)
                 THEN <<subimage, m>> ELSE qualified[r]]
    \* end of the loop body: its locals go out of scope
    /\ identical' = FALSE
    /\ uniform' = -1
    /\ npels' = 0
    /\ cr' = [r \in Runs |-> NoResult]
    /\ yee_failures' = 0
    /\ m' = m + 1
    /\ pc' = "miplevel"
    /\ UNCHANGED <<files, cfg, perceptual, compareall, outdiffonly, subimage, img0,
                   img1, imagecache, status, exitcode, ioFailed, level, worst,
                   everFail, differed, requested>>

\* lines 385-404: the subimage counts, the status line, the return
Finish ==
    /\ pc = "finish"
    /\ ret' = [r \in Runs |->
                 SubimageCountCheck(ret[r], compareall,
                                    img0.nsubimages, img1.nsubimages)]
    /\ worst' = [r \in Runs |->
                 IF compareall /\ img0.nsubimages # img1.nsubimages
                 THEN Max2(worst[r], ErrFail) ELSE worst[r]]
    /\ status' = [r \in Runs |-> StatusLine(ret'[r])]
    /\ imagecache' = FALSE
    /\ exitcode' = ret'
    /\ pc' = "done"
    /\ img0' = EmptyImg
    /\ img1' = EmptyImg
    /\ UNCHANGED <<files, uniform, cfg, perceptual, compareall, outdiffonly, diffimage,
                   subimage, m, identical, npels, cr,
                   yee_failures, ioFailed, ops, level, everFail, differed,
                   requested, qualified, diffs>>

\* lines 288-290 alone, for the level the ImageBufs hold
CountPixels ==
    /\ pc = "npels"
    /\ npels' \in NpelsOutcomes(img0.spec)
    /\ pc' = "counted"
    /\ UNCHANGED <<files, cfg, perceptual, compareall, outdiffonly, diffimage,
                   subimage, m, img0, img1, identical, cr, yee_failures, ret,
                   imagecache, status, exitcode, ioFailed, ops, level, worst,
                   everFail, differed, uniform, requested, qualified, diffs>>

Next ==
    \/ OpenInputs
    \/ SubimageStep
    \/ MipStep
    \/ CheckSize
    \/ CompareLevel
    \/ DiffStep
    \/ Finish

Spec == Init /\ [][Next]_vars

SpecThresh == InitThresh /\ [][Next]_vars

SpecRelax == InitRelax /\ [][Next]_vars

SpecNoDiff == InitNoDiff /\ [][Next]_vars

SpecBoundary == InitBoundary /\ [][Next]_vars

NextShape == CountPixels

SpecShape == InitShape /\ [][NextShape]_vars


(* ============================== claims ================================ *)
Finished == pc = "done" /\ ~ioFailed

\* A level has just been compared and classified.
Classified == pc = "diff"

FailRule(r) ==
    \/ cr[r].nfail * 100 > cfg[r].failpercent * npels
    \/ cr[r].maxerror > cfg[r].hardfail
    \/ yee_failures * 100 > cfg[r].failpercent * npels

WarnRule(r) ==
    \/ cr[r].nwarn * 100 > cfg[r].warnpercent * npels
    \/ cr[r].maxerror > cfg[r].hardwarn

\* C1: a compared level is Fail iff the fail rule holds (failures above the
\* allowed share, or the largest error above hardfail, or perceptual
\* failures above the allowed share), else Warn iff the warn rule holds,
\* else Pass; a largest error above hardfail is a Fail whatever the share.
C1_Classification ==
    Classified =>
        \A r \in Runs :
            /\ level[r] = ErrFail <=> FailRule(r)
            /\ level[r] = ErrWarn <=> (~FailRule(r) /\ WarnRule(r))
            /\ level[r] = ErrOK <=> (~FailRule(r) /\ ~WarnRule(r))
            /\ cr[r].maxerror > cfg[r].hardfail =>
                  (level[r] = ErrFail /\ ret[r] = ErrFail)

\* One error above hardfail, with the failures within the allowed share.
C1_Witness ==
    /\ Classified
    /\ cfg[1].failpercent = 50
    /\ cr[1].nfail * 100 <= cfg[1].failpercent * npels
    /\ yee_failures = 0
    /\ cr[1].maxerror > cfg[1].hardfail
    /\ level[1] = ErrFail

\* C2: a failed read ends the run at once with exit code 4, whatever the
\* verdict so far; a run without a failed read exits with 0, 1, 2 or 3.
C2_IOError ==
    /\ ioFailed => (pc = "done" /\ \A r \in Runs : exitcode[r] = ErrFile)
    /\ Finished => \A r \in Runs : exitcode[r] \in ErrOK..ErrDifferentSize
    /\ pc # "done" => \A r \in Runs : exitcode[r] = -1

\* A level read failing after a level was classified Fail.
C2_Witness ==
    /\ ioFailed
    /\ pc = "done"
    /\ ret[1] = ErrFail
    /\ m > 0
    /\ exitcode[1] = ErrFile

\* C3: the exit code of a run without a failed read is the most severe
\* verdict recorded during the run.
C3_MostSevere ==
    Finished => \A r \in Runs : exitcode[r] = worst[r]

\* C4: once a level is classified Fail the running verdict stays at Fail or
\* above.
C4_FailSticks ==
    \A r \in Runs : everFail[r] => ret[r] >= ErrFail

\* The two ImageBufs hold the same level of the two files.
PairLoaded ==
    /\ img0.subimage >= 0
    /\ img0.subimage = img1.subimage
    /\ img0.miplevel = img1.miplevel

Incompatible ==
    \/ img0.spec.width # img1.spec.width
    \/ img0.spec.height # img1.spec.height
    \/ img0.spec.depth # img1.spec.depth
    \/ img0.spec.nchannels # img1.spec.nchannels
    \/ img0.deep # img1.deep

\* The size check of the loaded pair has been made.
SizeChecked == pc \in {"subimage", "finish"} /\ subimage > img0.subimage

\* C5: a pair that differs in width, height, depth, channels or deepness is
\* never compared, perceptually compared, classified or turned into a
\* difference image, and its check records SizeMismatch.
C5_NoCompareOnMismatch ==
    (PairLoaded /\ Incompatible) =>
        /\ pc \notin {"compare", "diff"}
        /\ \A r \in Runs :
              /\ ops[r] = {}
              /\ \A i \in 1..Len(diffs[r]) :
                    <<diffs[r][i][1], diffs[r][i][2]>>
                        # <<img0.subimage, img0.miplevel>>
              /\ SizeChecked =>
                    (level[r] = ErrDifferentSize /\ ret[r] = ErrDifferentSize)

\* A one-channel level against a two-channel level, after its size check.
C5_Witness ==
    /\ PairLoaded
    /\ SizeChecked
    /\ img0.spec.nchannels = 1
    /\ img1.spec.nchannels = 2
    /\ img0.deep = img1.deep
    /\ img0.miplevel = 1
    /\ ret[1] = ErrDifferentSize

\* C6: with -a, files with different numbers of subimages end at Fail or
\* above.
C6_SubimageCount ==
    (Finished /\ compareall /\ Len(files[1]) # Len(files[2])) =>
        \A r \in Runs : exitcode[r] >= ErrFail

\* Two against one subimage, every compared level equal and of the same size.
C6_Witness ==
    /\ Finished
    /\ compareall
    /\ Len(files[1]) = 1
    /\ Len(files[2]) = 2
    /\ ~differed
    /\ ~everFail[1]
    /\ worst[1] = ErrFail
    /\ exitcode[1] = ErrFail

AllNonNegative(t) ==
    /\ t.failthresh >= 0
    /\ t.warnthresh >= 0
    /\ t.failpercent >= 0
    /\ t.warnpercent >= 0
    /\ t.hardfail >= 0
    /\ t.hardwarn >= 0

IdenticalPasses(r) ==
    /\ (Classified /\ identical) =>
          /\ cr[r].maxerror = 0
          /\ cr[r].nfail = 0
          /\ cr[r].nwarn = 0
          /\ level[r] = ErrOK
    /\ (/\ Finished
        /\ ~differed
        /\ worst[r] # ErrDifferentSize
        /\ ~(compareall /\ Len(files[1]) # Len(files[2]))) =>
          exitcode[r] = ErrOK

C8_Monotone ==
    Finished => exitcode[2] <= exitcode[1]

DiffLevels(r) == [i \in 1..Len(diffs[r]) |-> <<diffs[r][i][1], diffs[r][i][2]>>]

\* C9: at most one difference image is built in a run, from the first
\* compared level at which one was requested and (maxerror # 0 or -od is
\* off); no later level builds one, nor does a level with maxerror = 0
\* under -od.
C9_FirstDiffOnly ==
    \A r \in Runs :
        /\ Len(diffs[r]) <= 1
        /\ DiffLevels(r) =
              IF qualified[r] = NoLevel THEN << >> ELSE <<qualified[r]>>

\* Under -od the image was built from (1, 0), past the equal levels of
\* subimage 0, and a later level that differs finds the name cleared.
C9_Witness ==
    /\ Classified
    /\ outdiffonly
    /\ DiffLevels(1) = << <<1, 0>> >>
    /\ subimage = 1
    /\ m = 1
    /\ cr[1].maxerror # 0
    /\ ~diffimage[1]

\* C10: building and saving the difference image leaves the verdict as it
\* was, whether the save succeeds or not; the traversal goes on with the
\* next level and the run ends as the run without -o does.
C10_DiffKeepsVerdict ==
    /\ [](\A r \in Runs : ret[r] = ret[1] /\ exitcode[r] = exitcode[1])
    /\ [][pc = "diff" =>
            (ret' = ret /\ pc' = "miplevel" /\ m' = m + 1
             /\ subimage' = subimage)]_vars

\* A failed save at a level that differs, in a run that ends with Warn.
C10_Witness ==
    /\ Finished
    /\ Len(diffs[1]) = 1
    /\ diffs[1][1][3] = FALSE
    /\ diffs[2] = << >>
    /\ exitcode[1] = ErrWarn

\* C11: every run that has ended printed the final status line, and the
\* line agrees with the exit code: PASS for 0, WARNING for 1, FAILURE for 2
\* or more.
C11_StatusLine ==
    pc = "done" =>
        \A r \in Runs :
            /\ status[r] # "none"
            /\ status[r] = "PASS" <=> exitcode[r] = ErrOK
            /\ status[r] = "WARNING" <=> exitcode[r] = ErrWarn
            /\ status[r] = "FAILURE" <=> exitcode[r] >= ErrFail

\* C16: no run has ended with the image cache still in existence.
C16_CacheReleased == pc = "done" => ~imagecache

\* A step that puts another level into one of the ImageBufs puts in the
\* level the loop indices name.
ReadsCurrentLevel ==
    /\ (img0' # img0 /\ img0' # EmptyImg) =>
          (img0'.subimage = subimage' /\ img0'.miplevel = m')
    /\ (img1' # img1 /\ img1' # EmptyImg) =>
          (img1'.subimage = subimage' /\ img1'.miplevel = m')

\* C13: a size mismatch at (s, m) records SizeMismatch and leaves the MIP
\* loop of subimage s without ending the run; the subimage index never goes
\* back and only the level the indices name is read, so no further level of
\* s is read; with -a and s+1 below both subimage counts, the next step
\* reads level 0 of subimage s+1, which is then checked and, if it matches
\* in size, compared.
C13_MismatchBreaks ==
    [][/\ (pc = "check" /\ Incompatible) =>
             /\ pc' = "subimage"
             /\ subimage' = subimage + 1
             /\ exitcode' = exitcode
             /\ ~ioFailed'
             /\ UNCHANGED <<img0, img1, ops>>
             /\ \A r \in Runs : ret'[r] = ErrDifferentSize
       /\ (/\ pc = "subimage"
           /\ compareall
           /\ subimage < img0.nsubimages
           /\ subimage < img1.nsubimages) =>
             \/ ioFailed'
             \/ /\ pc' = "miplevel"
                /\ m' = 0
                /\ subimage' = subimage
                /\ img0'.subimage = subimage /\ img0'.miplevel = 0
                /\ img1'.subimage = subimage /\ img1'.miplevel = 0
       /\ (pc = "miplevel" /\ m = 0) => (ioFailed' \/ pc' = "check")
       /\ (pc = "check" /\ ~Incompatible) => pc' = "compare"
       /\ subimage' >= subimage
       /\ ReadsCurrentLevel]_vars

\* Level 0 of subimage 1 compared after a size mismatch in subimage 0,
\* whose two level counts are equal.
C13_Witness ==
    /\ compareall
    /\ Classified
    /\ subimage = 1
    /\ m = 0
    /\ files[1][1] = 2
    /\ files[2][1] = 2
    /\ worst[1] = ErrDifferentSize
    /\ "compare" \in ops[1]

LevelCountsDiffer == img0.nmiplevels # img1.nmiplevels

\* C14: when the MIP loop reaches an index m > 0 and the two level counts of
\* the subimage differ, it records SizeMismatch, reads and compares nothing,
\* and goes on with the next subimage without ending the run; level 0 was
\* compared and classified before, and no level m >= 1 of such a subimage
\* is ever read, checked or compared.
C14_LevelCountMismatch ==
    /\ []((pc \in {"check", "compare", "diff"} /\ m >= 1) => ~LevelCountsDiffer)
    /\ []((pc = "miplevel" /\ m > 0) =>
             \A r \in Runs :
                 "compare" \in ops[r] /\ level[r] \in ErrOK..ErrFail)
    /\ [][(/\ pc = "miplevel"
           /\ compareall
           /\ m > 0
           /\ m < img0.nmiplevels
           /\ LevelCountsDiffer) =>
             /\ \A r \in Runs : ret'[r] = ErrDifferentSize
             /\ pc' = "subimage"
             /\ subimage' = subimage + 1
             /\ exitcode' = exitcode
             /\ ~ioFailed'
             /\ UNCHANGED <<img0, img1>>]_vars

\* The MIP loop of subimage 0 left at m = 1 with two levels against one,
\* level 0 having matched in size and been classified Fail.
C14_Witness ==
    /\ compareall
    /\ pc = "subimage"
    /\ subimage = 1
    /\ m = 1
    /\ img0.subimage = 0
    /\ img0.miplevel = 0
    /\ img0.nmiplevels = 2
    /\ img1.nmiplevels = 1
    /\ ~Incompatible
    /\ everFail[1]
    /\ ret[1] = ErrDifferentSize

\* C15: without -a the only pair ever read, compared or turned into a
\* difference image is (subimage 0, level 0), and the exit code of a run
\* without a failed read is the verdict of that pair, whatever the subimage
\* and level counts of the two files.
C15_FirstPairOnly ==
    ~compareall =>
        /\ img0.subimage >= 0 => (img0.subimage = 0 /\ img0.miplevel = 0)
        /\ img1.subimage >= 0 => (img1.subimage = 0 /\ img1.miplevel = 0)
        /\ pc \in {"check", "compare", "diff"} => (subimage = 0 /\ m = 0)
        /\ \A r \in Runs :
              /\ \A i \in 1..Len(diffs[r]) : DiffLevels(r)[i] = <<0, 0>>
              /\ Finished => exitcode[r] = level[r]

\* Two subimages against one and two levels against one, and the run
\* passes.
C15_Witness ==
    /\ ~compareall
    /\ Finished
    /\ Len(files[1]) = 2
    /\ Len(files[2]) = 1
    /\ files[1][1] = 2
    /\ files[2][1] = 1
    /\ level[1] = ErrOK
    /\ exitcode[1] = ErrOK

\* C18: the perceptual comparator is invoked at a compared level iff -p was
\* given and neither buffer is deep; where it is not invoked the perceptual
\* failure count is 0 and a Fail of the level comes from the failure count
\* or the hard cutoff.
C18_PerceptualOnlyDense ==
    Classified =>
        \A r \in Runs :
            /\ "yee" \in ops[r] <=> (perceptual /\ ~img0.deep /\ ~img1.deep)
            /\ "yee" \notin ops[r] =>
                  /\ yee_failures = 0
                  /\ level[r] = ErrFail =>
                        \/ cr[r].nfail * 100 > cfg[r].failpercent * npels
                        \/ cr[r].maxerror > cfg[r].hardfail

\* A deep pair compared under -p.
C18_Witness ==
    /\ Classified
    /\ perceptual
    /\ img0.deep
    /\ img1.deep
    /\ "yee" \notin ops[1]
    /\ "compare" \in ops[1]
    /\ yee_failures = 0

\* C19: a level classified Pass leaves the running verdict as it was.
C19_PassKeepsVerdict ==
    [][\A r \in Runs :
          (pc = "compare" /\ level'[r] = ErrOK) => ret'[r] = ret[r]]_vars

\* A Pass at (1, 0) after a Fail in subimage 0.
C19_Witness ==
    /\ Classified
    /\ subimage = 1
    /\ level[1] = ErrOK
    /\ everFail[1]
    /\ ret[1] = ErrFail

\* Every pixel of the compared level has the error e, which is not above
\* failthresh of run r; warnpercent is 0 and the hard cutoffs are the
\* defaults.
BoundaryCase(r, e) ==
    /\ Classified
    /\ uniform = e
    /\ e <= cfg[r].failthresh
    /\ cfg[r].warnpercent = 0
    /\ cfg[r].hardwarn = FLT_MAX
    /\ cfg[r].hardfail = FLT_MAX

\* C12 as stated: with every pixel at the error e and warnthresh = e,
\* failthresh > e, the level has nfail = 0, nwarn = npels and is Warn.
C12_Original ==
    \A r \in Runs :
        (BoundaryCase(r, 1) /\ cfg[r].warnthresh = 1 /\ cfg[r].failthresh > 1) =>
            (cr[r].nfail = 0 /\ cr[r].nwarn = npels /\ level[r] = ErrWarn)

\* C12 amended: with every pixel at the error e, nfail = 0; nwarn = npels
\* and the level is Warn if e is above warnthresh, nwarn = 0 and the level
\* is Pass if e equals warnthresh.
C12_Boundary ==
    \A r \in Runs : \A e \in 1..2 :
        BoundaryCase(r, e) =>
            /\ cr[r].nfail = 0
            /\ e > cfg[r].warnthresh =>
                  (cr[r].nwarn = npels /\ level[r] = ErrWarn)
            /\ e = cfg[r].warnthresh =>
                  (cr[r].nwarn = 0 /\ level[r] = ErrOK)

\* Two pixels, both with the error 1: Pass with -warn 1, Warn with -warn 0.
C12_Witness ==
    /\ Classified
    /\ uniform = 1
    /\ npels = 2
    /\ cfg[1].warnthresh = 1
    /\ cfg[2].warnthresh = 0
    /\ level[1] = ErrOK
    /\ level[2] = ErrWarn
    /\ cr[2].nwarn = 2

\* C17: the pixel count computed for a level is at least 1, and it is 1
\* for a level of zero area.
C17_TotalPixels ==
    (pc = "counted" \/ Classified) =>
        /\ npels >= 1
        /\ (img0.spec.width = 0 \/ img0.spec.height = 0 \/ img0.spec.depth = 0)
              => npels = 1

=============================================================================
